---- MODULE Spec2Model ----
(***************************************************************************)
(* Canonical timeline projection (matrix-sdk-ui, timeline/canonical).      *)
(*                                                                         *)
(* The model follows the Rust sources:                                     *)
(*   state.rs             CanonicalTimelineState (the store)               *)
(*   types.rs, delta.rs   the value types                                  *)
(*   ordering.rs          CanonicalOrderingKey                             *)
(*   adapters/edit.rs     EditAdapter                                      *)
(*   adapters/message.rs  MessageAdapter                                   *)
(*                                                                         *)
(* Option<T> is a sequence of length 0 (None) or 1 (Some).  A BTreeMap is  *)
(* a function on the finite set of its keys.                               *)
(***************************************************************************)
EXTENDS Integers, Sequences, FiniteSets, TLC

VARIABLES
    items,              \* BTreeMap<u64, CanonicalMessage>
    event_to_sequence,  \* BTreeMap<OwnedEventId, u64>
    pending_edits,      \* BTreeMap<OwnedEventId, Vec<OwnedEventId>>
    delta_tx,           \* every CanonicalDelta sent on the broadcast channel, in order
    next_sequence,      \* u64 allocation counter
    receivers,          \* the live broadcast::Receiver handles of delta_tx
    last                \* the last call made on the store or the adapters, and what it returned

vars == <<items, event_to_sequence, pending_edits, delta_tx, next_sequence,
          receivers, last>>

----------------------------------------------------------------------------
(* Bounds of the exploration *)

\* number of ordering keys the store may allocate
MaxSequence == 3
\* largest ordering key a caller of upsert/remove supplies directly
MaxKey == 1
\* number of deltas that may be published on the channel
MaxDeltas == 3
\* number of edit identities that may sit in the pending buffer
MaxPending == 2
\* number of deltas a burst of the writer publishes beyond the channel capacity
MaxLag == 2

----------------------------------------------------------------------------
(* Option and map helpers *)

None == << >>
Some(x) == << x >>
IsSome(o) == Len(o) = 1
Unwrap(o) == o[1]

EmptyMap == [x \in {} |-> x]
MapInsert(m, k, v) == [x \in (DOMAIN m) \cup {k} |-> IF x = k THEN v ELSE m[x]]
MapRemove(m, k) == [x \in (DOMAIN m) \ {k} |-> m[x]]
MapGet(m, k) == IF k \in DOMAIN m THEN Some(m[k]) ELSE None

\* the keys of a BTreeMap<u64, _> in ascending order
KeyAt(m, i) == CHOOSE k \in DOMAIN m : Cardinality({j \in DOMAIN m : j < k}) = i - 1
\* BTreeMap::values(): the values in ascending key order
MapValues(m) == [i \in 1..Cardinality(DOMAIN m) |-> m[KeyAt(m, i)]]

----------------------------------------------------------------------------
(* ordering.rs *)

from_sequence(seq) == seq
as_u64(key) == key

----------------------------------------------------------------------------
(* types.rs *)

Known == "Known"
\* ContentAvailability::Encrypted { utd_cause: None }: no code path sets a cause
Encrypted == "Encrypted"
Redacted == "Redacted"

MessageContent(msg_type, body, formatted) ==
    [msg_type |-> msg_type, body |-> body, formatted |-> formatted]

\* MessageContent::empty()
empty == MessageContent("Text", "", None)

\* MessageContent::redacted()
redacted == MessageContent("Text", "[redacted]", None)

FormattedBody(format, body) == [format |-> format, body |-> body]

EditMetadata(edit_id, timestamp, position) ==
    [edit_id |-> edit_id, timestamp |-> timestamp, position |-> position]

CanonicalEditState(current_content, original_content, edit_chain) ==
    [current_content |-> current_content,
     original_content |-> original_content,
     edit_chain |-> edit_chain]

CanonicalMessage(id, sender, content, edit_state, ordering_key, availability, timestamp) ==
    [id |-> id, sender |-> sender, content |-> content, edit_state |-> edit_state,
     ordering_key |-> ordering_key, availability |-> availability,
     timestamp |-> timestamp]

----------------------------------------------------------------------------
(* delta.rs *)

Insert(position, item) == [type |-> "Insert", position |-> position, item |-> item]
Update(position, item) == [type |-> "Update", position |-> position, item |-> item]
Remove(position) == [type |-> "Remove", position |-> position]
Reset(its) == [type |-> "Reset", items |-> its]

----------------------------------------------------------------------------
(* state.rs: CanonicalTimelineState.  The methods are operators on a record *)
(* of the struct's fields; a method that returns a value yields             *)
(* [st |-> the store after the call, ret |-> the value returned].           *)

\* broadcast::channel(128): the number of sent values the channel retains for
\* the receivers that have not read them yet
Capacity == 128

\* CanonicalTimelineState::new(); the receiver that broadcast::channel returns
\* is dropped at once, so the channel starts without receivers
new ==
    [items |-> EmptyMap,
     event_to_sequence |-> EmptyMap,
     pending_edits |-> EmptyMap,
     delta_tx |-> << >>,
     next_sequence |-> 0,
     receivers |-> EmptyMap]

\* `let _ = self.delta_tx.send(delta)`: the value is handed to the channel and
\* the Result (an Err when nobody is subscribed) is discarded
send(tx, delta) == Append(tx, delta)

\* next_ordering_key as it would be without `self.next_sequence += 1`
next_ordering_key_reuse(s) ==
    [st |-> s, ret |-> from_sequence(s.next_sequence)]

next_ordering_key(s) ==
    LET seq == s.next_sequence
    IN  [st |-> [s EXCEPT !.next_sequence = @ + 1],
         ret |-> from_sequence(seq)]

\* upsert as it would be if a failed send ended the call:
\* `if self.delta_tx.send(delta).is_err() { return false; }`; the send fails
\* when the channel has no receiver
upsert_send_checked(s, message) ==
    LET sequence == as_u64(message.ordering_key)
        event_id == message.id
        is_new == event_id \notin DOMAIN s.event_to_sequence
        delta == IF is_new
                 THEN Insert(message.ordering_key, message)
                 ELSE Update(message.ordering_key, message)
    IN  [st |-> [s EXCEPT !.items = MapInsert(@, sequence, message),
                          !.event_to_sequence = MapInsert(@, event_id, sequence),
                          !.delta_tx = send(@, delta)],
         ret |-> IF DOMAIN s.receivers = {} THEN FALSE ELSE is_new]

\* upsert as it would be over a channel that refuses a value while a receiver
\* has Capacity values unread, the call giving up before it changes the store
upsert_backpressure(s, message) ==
    LET sequence == as_u64(message.ordering_key)
        event_id == message.id
        is_new == event_id \notin DOMAIN s.event_to_sequence
        delta == IF is_new
                 THEN Insert(message.ordering_key, message)
                 ELSE Update(message.ordering_key, message)
        full == \E handle \in DOMAIN s.receivers :
                    Len(s.delta_tx) - s.receivers[handle].next >= Capacity
    IN  IF full
        THEN [st |-> s, ret |-> FALSE]
        ELSE [st |-> [s EXCEPT !.items = MapInsert(@, sequence, message),
                               !.event_to_sequence = MapInsert(@, event_id, sequence),
                               !.delta_tx = send(@, delta)],
              ret |-> is_new]

\* upsert as it would be if only an insertion were announced:
\* `if is_new { let _ = self.delta_tx.send(delta); }`
upsert_silent_update(s, message) ==
    LET sequence == as_u64(message.ordering_key)
        event_id == message.id
        is_new == event_id \notin DOMAIN s.event_to_sequence
    IN  [st |-> [s EXCEPT !.items = MapInsert(@, sequence, message),
                          !.event_to_sequence = MapInsert(@, event_id, sequence),
                          !.delta_tx = IF is_new
                                       THEN send(@, Insert(message.ordering_key, message))
                                       ELSE @],
         ret |-> is_new]

upsert(s, message) ==
    LET sequence == as_u64(message.ordering_key)
        event_id == message.id
        is_new == event_id \notin DOMAIN s.event_to_sequence
        delta == IF is_new
                 THEN Insert(message.ordering_key, message)
                 ELSE Update(message.ordering_key, message)
    IN  [st |-> [s EXCEPT !.items = MapInsert(@, sequence, message),
                          !.event_to_sequence = MapInsert(@, event_id, sequence),
                          !.delta_tx = send(@, delta)],
         ret |-> is_new]

get_by_event_id(s, event_id) ==
    IF event_id \notin DOMAIN s.event_to_sequence
    THEN None
    ELSE MapGet(s.items, s.event_to_sequence[event_id])

\* CanonicalTimelineState::items(), the snapshot
items_vec(s) == MapValues(s.items)

add_pending_edit(s, parent_event_id, edit_event_id) ==
    LET entry == IF parent_event_id \in DOMAIN s.pending_edits
                 THEN s.pending_edits[parent_event_id]
                 ELSE << >>
    IN  [s EXCEPT !.pending_edits =
                      MapInsert(@, parent_event_id, Append(entry, edit_event_id))]

\* take_pending_edits as it would be with BTreeMap::get in place of remove
take_pending_edits_get(s, parent_event_id) ==
    [st |-> s,
     ret |-> IF parent_event_id \in DOMAIN s.pending_edits
             THEN s.pending_edits[parent_event_id]
             ELSE << >>]

take_pending_edits(s, parent_event_id) ==
    [st |-> [s EXCEPT !.pending_edits = MapRemove(@, parent_event_id)],
     ret |-> IF parent_event_id \in DOMAIN s.pending_edits
             THEN s.pending_edits[parent_event_id]
             ELSE << >>]

\* remove as it would be if only the ordered collection were cleared and the
\* identity index kept its entry
remove_items_only(s, position) ==
    LET seq == as_u64(position)
    IN  IF seq \notin DOMAIN s.items
        THEN [st |-> s, ret |-> None]
        ELSE LET message == s.items[seq]
             IN  [st |-> [s EXCEPT !.items = MapRemove(@, seq),
                                   !.delta_tx = send(@, Remove(position))],
                  ret |-> Some(message)]

remove(s, position) ==
    LET seq == as_u64(position)
    IN  IF seq \notin DOMAIN s.items
        THEN [st |-> s, ret |-> None]
        ELSE LET message == s.items[seq]
             IN  [st |-> [s EXCEPT !.items = MapRemove(@, seq),
                                   !.event_to_sequence = MapRemove(@, message.id),
                                   !.delta_tx = send(@, Remove(position))],
                  ret |-> Some(message)]

\* emit_reset as it would be if it announced a rebuild from nothing:
\* `CanonicalDelta::Reset { items: Vec::new() }`
emit_reset_empty(s) ==
    [s EXCEPT !.delta_tx = send(@, Reset(<< >>))]

emit_reset(s) ==
    [s EXCEPT !.delta_tx = send(@, Reset(items_vec(s)))]

----------------------------------------------------------------------------
(* state.rs: subscribe(), and the broadcast::Receiver handles it returns.  *)
(* A receiver is a cursor into the values sent on the channel: next is the  *)
(* number of sent values that lie before the one it reads next.  since,     *)
(* received and missed record what the handle has seen: the number of       *)
(* values sent before it subscribed, the values its reads returned, and the *)
(* number of values its reads reported lost.                                *)

Receiver(next, since, received, missed) ==
    [next |-> next, since |-> since, received |-> received, missed |-> missed]

\* the results of Receiver::try_recv
Ok(value) == [ok |-> TRUE, value |-> value]
Empty == [ok |-> FALSE, error |-> "Empty"]
Lagged(skipped) == [ok |-> FALSE, error |-> "Lagged", skipped |-> skipped]

\* subscribe as it would be if a new handle were handed the values the channel
\* still retains
subscribe_replay(s, handle) ==
    LET tail == Len(s.delta_tx)
        oldest == IF tail > Capacity THEN tail - Capacity ELSE 0
    IN  [s EXCEPT !.receivers = MapInsert(@, handle, Receiver(oldest, tail, << >>, 0))]

\* CanonicalTimelineState::subscribe(): the new receiver starts at the tail of
\* the channel
subscribe(s, handle) ==
    LET tail == Len(s.delta_tx)
    IN  [s EXCEPT !.receivers = MapInsert(@, handle, Receiver(tail, tail, << >>, 0))]

\* Receiver::try_recv: the next unread value; Empty when all sent values are
\* read; when more than Capacity values are unread the oldest are gone, the
\* cursor moves to the oldest retained value and the call reports how many
\* were skipped
try_recv(s, handle) ==
    LET rx == s.receivers[handle]
        tail == Len(s.delta_tx)
    IN  IF rx.next = tail
        THEN [st |-> s, ret |-> Empty]
        ELSE IF tail - rx.next > Capacity
        THEN LET oldest == tail - Capacity
                 skipped == oldest - rx.next
             IN  [st |-> [s EXCEPT !.receivers[handle].next = oldest,
                                   !.receivers[handle].missed = @ + skipped],
                  ret |-> Lagged(skipped)]
        ELSE LET value == s.delta_tx[rx.next + 1]
             IN  [st |-> [s EXCEPT !.receivers[handle].next = @ + 1,
                                   !.receivers[handle].received = Append(@, value)],
                  ret |-> Ok(value)]

\* Drop for Receiver: the handle leaves the channel
drop_receiver(s, handle) ==
    [s EXCEPT !.receivers = MapRemove(@, handle)]

----------------------------------------------------------------------------
(* The store the variables hold, and the step that installs a new one *)

Store ==
    [items |-> items,
     event_to_sequence |-> event_to_sequence,
     pending_edits |-> pending_edits,
     delta_tx |-> delta_tx,
     next_sequence |-> next_sequence,
     receivers |-> receivers]

Becomes(s, call) ==
    /\ items' = s.items
    /\ event_to_sequence' = s.event_to_sequence
    /\ pending_edits' = s.pending_edits
    /\ delta_tx' = s.delta_tx
    /\ next_sequence' = s.next_sequence
    /\ receivers' = s.receivers
    /\ last' = call

PendingCount(s) ==
    LET RECURSIVE Sum(_)
        Sum(S) == IF S = {} THEN 0
                  ELSE LET p == CHOOSE p \in S : TRUE
                       IN  Len(s.pending_edits[p]) + Sum(S \ {p})
    IN  Sum(DOMAIN s.pending_edits)

Init ==
    /\ items = new.items
    /\ event_to_sequence = new.event_to_sequence
    /\ pending_edits = new.pending_edits
    /\ delta_tx = new.delta_tx
    /\ next_sequence = new.next_sequence
    /\ receivers = new.receivers
    /\ last = [op |-> "new"]

----------------------------------------------------------------------------
(* Calls on the store itself, with the messages the unit tests build *)

StoreEventIds == {"$event1", "$event2"}
StoreBodies == {"Original", "Decrypted"}
PendingEditIds == {"$edit1", "$edit2"}

\* state.rs tests: create_test_message(event_id, body, sequence); the clock
\* value of MilliSecondsSinceUnixEpoch::now() is fixed
create_test_message(event_id, body, sequence) ==
    CanonicalMessage(event_id, "@alice:example.org",
                     MessageContent("Text", body, None),
                     None, from_sequence(sequence), Known, Some(1))

TestMessages ==
    { create_test_message(e, b, k) : e \in StoreEventIds, b \in StoreBodies, k \in 0..MaxKey }

Upsert ==
    /\ Len(delta_tx) < MaxDeltas
    /\ \E message \in TestMessages :
          LET r == upsert(Store, message)
          IN  Becomes(r.st, [op |-> "upsert", message |-> message, ret |-> r.ret])

GetByEventId ==
    /\ \E event_id \in StoreEventIds :
          Becomes(Store, [op |-> "get_by_event_id", event_id |-> event_id,
                          ret |-> get_by_event_id(Store, event_id)])

RemoveAt ==
    /\ Len(delta_tx) < MaxDeltas
    /\ \E position \in 0..MaxKey :
          LET r == remove(Store, position)
          IN  Becomes(r.st, [op |-> "remove", position |-> position, ret |-> r.ret])

EmitReset ==
    /\ Len(delta_tx) < MaxDeltas
    /\ Becomes(emit_reset(Store), [op |-> "emit_reset"])

NextOrderingKey ==
    /\ next_sequence < MaxSequence
    /\ LET r == next_ordering_key(Store)
       IN  Becomes(r.st, [op |-> "next_ordering_key", ret |-> r.ret])

AddPendingEdit ==
    /\ PendingCount(Store) < MaxPending
    /\ \E parent_event_id \in StoreEventIds, edit_event_id \in PendingEditIds :
          Becomes(add_pending_edit(Store, parent_event_id, edit_event_id),
                  [op |-> "add_pending_edit", parent_event_id |-> parent_event_id,
                   edit_event_id |-> edit_event_id])

TakePendingEdits ==
    /\ \E parent_event_id \in StoreEventIds :
          LET r == take_pending_edits(Store, parent_event_id)
          IN  Becomes(r.st, [op |-> "take_pending_edits",
                             parent_event_id |-> parent_event_id, ret |-> r.ret])

\* the ordered collection and its identity index, driven by direct calls
NextStore == Upsert \/ GetByEventId \/ RemoveAt \/ EmitReset
SpecStore == Init /\ [][NextStore]_vars

\* the pending-edit buffer and the key allocator, driven by direct calls
NextBuffer == AddPendingEdit \/ TakePendingEdits \/ NextOrderingKey
SpecBuffer == Init /\ [][NextBuffer]_vars

----------------------------------------------------------------------------
(* Subscribers of the delta channel *)

\* the receive handles the subscribers may hold
Handles == {"rx1", "rx2"}

Subscribe ==
    /\ \E handle \in Handles \ DOMAIN receivers :
          Becomes(subscribe(Store, handle), [op |-> "subscribe", handle |-> handle])

TryRecv ==
    /\ \E handle \in DOMAIN receivers :
          LET r == try_recv(Store, handle)
          IN  Becomes(r.st, [op |-> "try_recv", handle |-> handle, ret |-> r.ret])

DropReceiver ==
    /\ \E handle \in DOMAIN receivers :
          Becomes(drop_receiver(Store, handle),
                  [op |-> "drop", handle |-> handle])

\* state.rs tests, test_delta_broadcast: the message the writer upserts while
\* a subscriber listens, in both of the bodies the tests give a message
BroadcastMessages ==
    { create_test_message("$event1", body, 1) : body \in StoreBodies }

BroadcastUpsert ==
    /\ Len(delta_tx) < MaxDeltas
    /\ \E message \in BroadcastMessages :
          LET r == upsert(Store, message)
          IN  Becomes(r.st, [op |-> "upsert", message |-> message, ret |-> r.ret])

BroadcastRemove ==
    /\ Len(delta_tx) < MaxDeltas
    /\ \E message \in BroadcastMessages :
          LET r == remove(Store, message.ordering_key)
          IN  Becomes(r.st, [op |-> "remove", position |-> message.ordering_key,
                             ret |-> r.ret])

\* the writer calls the store while subscribers come, read and go
NextChannel ==
    \/ BroadcastUpsert
    \/ BroadcastRemove
    \/ EmitReset
    \/ Subscribe
    \/ TryRecv
    \/ DropReceiver
SpecChannel == Init /\ [][NextChannel]_vars

\* state.rs tests, test_pending_edits: the first edit buffered for a parent,
\* any number of times
BufferFirstEdit ==
    /\ PendingCount(Store) < MaxPending
    /\ Becomes(add_pending_edit(Store, "$event1", "$edit1"),
               [op |-> "add_pending_edit", parent_event_id |-> "$event1",
                edit_event_id |-> "$edit1"])

\* A burst of the writer that outruns a subscriber: the subscriber is there
\* from the start, the writer repeats upsert, emit_reset, remove of the
\* broadcast test's message until it has published MaxLag deltas more than
\* the channel retains, and the subscriber reads whenever it likes.
BurstMessage == create_test_message("$event1", "Test", 1)

BurstSubscribe ==
    /\ delta_tx = << >>
    /\ receivers = EmptyMap
    /\ Becomes(subscribe(Store, "rx1"), [op |-> "subscribe", handle |-> "rx1"])

BurstUpsert ==
    /\ Len(delta_tx) < Capacity + MaxLag
    /\ Len(delta_tx) % 3 = 0
    /\ LET r == upsert(Store, BurstMessage)
       IN  Becomes(r.st, [op |-> "upsert", message |-> BurstMessage, ret |-> r.ret])

BurstReset ==
    /\ Len(delta_tx) < Capacity + MaxLag
    /\ Len(delta_tx) % 3 = 1
    /\ Becomes(emit_reset(Store), [op |-> "emit_reset"])

BurstRemove ==
    /\ Len(delta_tx) < Capacity + MaxLag
    /\ Len(delta_tx) % 3 = 2
    /\ LET r == remove(Store, BurstMessage.ordering_key)
       IN  Becomes(r.st, [op |-> "remove", position |-> BurstMessage.ordering_key,
                          ret |-> r.ret])

NextLag ==
    \/ BurstSubscribe
    \/ BurstUpsert
    \/ BurstReset
    \/ BurstRemove
    \/ TryRecv
SpecLag == Init /\ [][NextLag]_vars

\* every operation of the store, called in any order
NextAllocator ==
    \/ NextOrderingKey
    \/ BroadcastUpsert
    \/ BroadcastRemove
    \/ EmitReset
    \/ Subscribe
    \/ BufferFirstEdit
    \/ TakePendingEdits
SpecAllocator == Init /\ [][NextAllocator]_vars

----------------------------------------------------------------------------
(* Raw events (ruma's AnySyncTimelineEvent), as far as the adapters read them *)

EventIds == {"$a", "$b", "$c"}

\* An event identity fixes its sender, its origin_server_ts and what it says
SenderOf(event_id) ==
    IF event_id = "$b" THEN "@bob:example.org" ELSE "@alice:example.org"

OriginServerTs(event_id) ==
    CASE event_id = "$a" -> 30
      [] event_id = "$b" -> 10
      [] OTHER -> 20

\* ruma's MessageType of the message the event carries
MsgtypeOf(event_id) ==
    CASE event_id = "$a" ->
            [type |-> "m.text", body |-> "hello", formatted |-> None]
      [] event_id = "$b" ->
            [type |-> "m.notice", body |-> "hello world",
             formatted |-> Some([format |-> "org.matrix.custom.html",
                                 body |-> "<b>hello world</b>"])]
      [] OTHER ->
            [type |-> "m.image", body |-> "cat.png", formatted |-> None]

\* the fallback body an edit event carries beside m.new_content
FallbackMsgtype == [type |-> "m.text", body |-> "* edited", formatted |-> None]

Envelope(kind, event_id) ==
    [kind |-> kind, event_id |-> event_id, sender |-> SenderOf(event_id),
     origin_server_ts |-> OriginServerTs(event_id)]

\* SyncRoomMessageEvent::Original without a relation
PlainEvent(event_id) ==
    [kind |-> "RoomMessage.Original", event_id |-> event_id,
     sender |-> SenderOf(event_id), origin_server_ts |-> OriginServerTs(event_id),
     content |-> [msgtype |-> MsgtypeOf(event_id), relates_to |-> None]]

\* SyncRoomMessageEvent::Original with Relation::Replacement
EditEvent(event_id, parent) ==
    [kind |-> "RoomMessage.Original", event_id |-> event_id,
     sender |-> SenderOf(event_id), origin_server_ts |-> OriginServerTs(event_id),
     content |-> [msgtype |-> FallbackMsgtype,
                  relates_to |-> Some([rel_type |-> "m.replace", event_id |-> parent,
                                       new_content |-> [msgtype |-> MsgtypeOf(event_id)]])]]

\* SyncRoomRedactionEvent::Original
RedactionEvent(event_id, redacts) ==
    [kind |-> "RoomRedaction.Original", event_id |-> event_id,
     sender |-> SenderOf(event_id), origin_server_ts |-> OriginServerTs(event_id),
     content |-> [redacts |-> redacts]]

\* An event's identity is derived from its content, so no event replaces or
\* redacts itself
DistinctPairs == { x \in EventIds \X EventIds : x[1] # x[2] }

PlainEvents == { PlainEvent(e) : e \in EventIds }
EditEvents == { EditEvent(x[1], x[2]) : x \in DistinctPairs }
RedactedMessageEvents == { Envelope("RoomMessage.Redacted", e) : e \in EventIds }
EncryptedEvents == { Envelope("RoomEncrypted.Original", e) : e \in EventIds }
RedactedEncryptedEvents == { Envelope("RoomEncrypted.Redacted", e) : e \in EventIds }
RedactionEvents ==
    { RedactionEvent(x[1], Some(x[2])) : x \in DistinctPairs }
    \cup { RedactionEvent("$c", None) }
\* shapes no adapter handles: a redaction in redacted form, another
\* message-like event, a state event
OtherEvents ==
    { Envelope("RoomRedaction.Redacted", "$c"),
      Envelope("Reaction", "$c"),
      Envelope("State", "$c") }

----------------------------------------------------------------------------
(* adapters/mod.rs *)

AdapterContext(state, ordering_key) == [state |-> state, ordering_key |-> ordering_key]

----------------------------------------------------------------------------
(* adapters/message.rs *)

map_message_type(ruma_type) ==
    CASE ruma_type.type \in {"m.text", "m.notice", "m.emote"} -> "Text"
      [] ruma_type.type = "m.image" -> "Image"
      [] ruma_type.type = "m.video" -> "Video"
      [] ruma_type.type = "m.audio" -> "Audio"
      [] ruma_type.type = "m.file" -> "File"
      [] OTHER -> "Text"

extract_formatted(ruma_type) ==
    IF ruma_type.type \in {"m.text", "m.emote", "m.notice"}
    THEN IF IsSome(ruma_type.formatted)
         THEN Some(FormattedBody(Unwrap(ruma_type.formatted).format,
                                 Unwrap(ruma_type.formatted).body))
         ELSE None
    ELSE None

\* MessageAdapter::process with one of three slips, named by variant:
\*   "keeps_edit_state"   a redaction leaves the target's edit state in place
\*   "keeps_tombstone"    a redaction of an absent target stores a Redacted
\*                        item under the target's identity
\*   "claims_all"         the shapes the adapter does not handle report handled
MessageAdapter_process_variant(event, context, variant) ==
    CASE event.kind = "RoomMessage.Original" ->
            LET event_id == event.event_id
                content == MessageContent(map_message_type(event.content.msgtype),
                                          event.content.msgtype.body,
                                          extract_formatted(event.content.msgtype))
                canonical_message ==
                    CanonicalMessage(event_id, event.sender, content, None,
                                     context.ordering_key, Known,
                                     Some(event.origin_server_ts))
                upserted == upsert(context.state, canonical_message).st
            IN  [st |-> take_pending_edits(upserted, event_id).st, ret |-> TRUE]
      [] event.kind \in {"RoomMessage.Redacted", "RoomEncrypted.Redacted"} ->
            LET canonical_message ==
                    CanonicalMessage(event.event_id, event.sender, redacted, None,
                                     context.ordering_key, Redacted,
                                     Some(event.origin_server_ts))
            IN  [st |-> upsert(context.state, canonical_message).st, ret |-> TRUE]
      [] event.kind = "RoomEncrypted.Original" ->
            LET canonical_message ==
                    CanonicalMessage(event.event_id, event.sender, empty, None,
                                     context.ordering_key, Encrypted,
                                     Some(event.origin_server_ts))
            IN  [st |-> upsert(context.state, canonical_message).st, ret |-> TRUE]
      [] event.kind = "RoomRedaction.Original" ->
            LET found == IF IsSome(event.content.redacts)
                         THEN get_by_event_id(context.state, Unwrap(event.content.redacts))
                         ELSE None
            IN  IF IsSome(found)
                THEN LET message ==
                             [Unwrap(found) EXCEPT
                                 !.content = redacted,
                                 !.availability = Redacted,
                                 !.edit_state = IF variant = "keeps_edit_state"
                                                THEN @ ELSE None]
                     IN  [st |-> upsert(context.state, message).st, ret |-> TRUE]
                ELSE IF variant = "keeps_tombstone" /\ IsSome(event.content.redacts)
                THEN LET tombstone ==
                             CanonicalMessage(Unwrap(event.content.redacts), event.sender,
                                              redacted, None, context.ordering_key,
                                              Redacted, None)
                     IN  [st |-> upsert(context.state, tombstone).st, ret |-> TRUE]
                ELSE [st |-> context.state, ret |-> TRUE]
      [] OTHER ->
            [st |-> context.state, ret |-> variant = "claims_all"]

MessageAdapter_process_keeps_edit_state(event, context) ==
    MessageAdapter_process_variant(event, context, "keeps_edit_state")

MessageAdapter_process_keeps_tombstone(event, context) ==
    MessageAdapter_process_variant(event, context, "keeps_tombstone")

MessageAdapter_process_claims_all(event, context) ==
    MessageAdapter_process_variant(event, context, "claims_all")

\* MessageAdapter::process: [st |-> the store after the call, ret |-> handled]
MessageAdapter_process(event, context) ==
    CASE event.kind = "RoomMessage.Original" ->
            LET event_id == event.event_id
                content == MessageContent(map_message_type(event.content.msgtype),
                                          event.content.msgtype.body,
                                          extract_formatted(event.content.msgtype))
                canonical_message ==
                    CanonicalMessage(event_id, event.sender, content, None,
                                     context.ordering_key, Known,
                                     Some(event.origin_server_ts))
                upserted == upsert(context.state, canonical_message).st
            IN  [st |-> take_pending_edits(upserted, event_id).st, ret |-> TRUE]
      [] event.kind = "RoomMessage.Redacted" ->
            LET canonical_message ==
                    CanonicalMessage(event.event_id, event.sender, redacted, None,
                                     context.ordering_key, Redacted,
                                     Some(event.origin_server_ts))
            IN  [st |-> upsert(context.state, canonical_message).st, ret |-> TRUE]
      [] event.kind = "RoomEncrypted.Original" ->
            LET canonical_message ==
                    CanonicalMessage(event.event_id, event.sender, empty, None,
                                     context.ordering_key, Encrypted,
                                     Some(event.origin_server_ts))
            IN  [st |-> upsert(context.state, canonical_message).st, ret |-> TRUE]
      [] event.kind = "RoomEncrypted.Redacted" ->
            LET canonical_message ==
                    CanonicalMessage(event.event_id, event.sender, redacted, None,
                                     context.ordering_key, Redacted,
                                     Some(event.origin_server_ts))
            IN  [st |-> upsert(context.state, canonical_message).st, ret |-> TRUE]
      [] event.kind = "RoomRedaction.Original" ->
            LET found == IF IsSome(event.content.redacts)
                         THEN get_by_event_id(context.state, Unwrap(event.content.redacts))
                         ELSE None
            IN  IF IsSome(found)
                THEN LET message == [Unwrap(found) EXCEPT !.content = redacted,
                                                          !.availability = Redacted,
                                                          !.edit_state = None]
                     IN  [st |-> upsert(context.state, message).st, ret |-> TRUE]
                ELSE [st |-> context.state, ret |-> TRUE]
      [] event.kind = "RoomRedaction.Redacted" ->
            [st |-> context.state, ret |-> FALSE]
      [] OTHER ->
            [st |-> context.state, ret |-> FALSE]

----------------------------------------------------------------------------
(* adapters/edit.rs *)

\* apply_edit as it would be if the chain were kept in timestamp order: an
\* edit older than the chain's last record goes in front of it
apply_edit_by_timestamp(context, parent_event_id, edit_event_id, new_content, timestamp) ==
    LET found == get_by_event_id(context.state, parent_event_id)
    IN  IF ~IsSome(found)
        THEN add_pending_edit(context.state, parent_event_id, edit_event_id)
        ELSE LET message == Unwrap(found)
                 new_message_content ==
                     MessageContent(map_message_type(new_content.msgtype),
                                    new_content.msgtype.body,
                                    extract_formatted(new_content.msgtype))
                 edit_metadata ==
                     EditMetadata(edit_event_id, timestamp, context.ordering_key)
                 chained(chain) ==
                     IF Unwrap(chain[Len(chain)].timestamp) > Unwrap(timestamp)
                     THEN SubSeq(chain, 1, Len(chain) - 1)
                             \o << edit_metadata, chain[Len(chain)] >>
                     ELSE Append(chain, edit_metadata)
                 edited ==
                     IF IsSome(message.edit_state)
                     THEN [message EXCEPT !.edit_state =
                              Some([Unwrap(@) EXCEPT
                                       !.edit_chain = chained(@),
                                       !.current_content = new_message_content])]
                     ELSE [message EXCEPT !.edit_state =
                              Some(CanonicalEditState(new_message_content,
                                                      message.content,
                                                      << edit_metadata >>)),
                                          !.content = new_message_content]
             IN  upsert(context.state, edited).st

\* apply_edit as it would be if an edit without a stored parent were dropped
\* the way a redaction without a stored target is
apply_edit_unbuffered(context, parent_event_id, edit_event_id, new_content, timestamp) ==
    LET found == get_by_event_id(context.state, parent_event_id)
    IN  IF ~IsSome(found)
        THEN context.state
        ELSE LET message == Unwrap(found)
                 new_message_content ==
                     MessageContent(map_message_type(new_content.msgtype),
                                    new_content.msgtype.body,
                                    extract_formatted(new_content.msgtype))
                 edit_metadata ==
                     EditMetadata(edit_event_id, timestamp, context.ordering_key)
                 edited ==
                     IF IsSome(message.edit_state)
                     THEN [message EXCEPT !.edit_state =
                              Some([Unwrap(@) EXCEPT
                                       !.edit_chain = Append(@, edit_metadata),
                                       !.current_content = new_message_content])]
                     ELSE [message EXCEPT !.edit_state =
                              Some(CanonicalEditState(new_message_content,
                                                      message.content,
                                                      << edit_metadata >>)),
                                          !.content = new_message_content]
             IN  upsert(context.state, edited).st

\* apply_edit as it would be if the edited parent were stamped with the key
\* allocated for the edit event, the way the Message Adapter stamps a message
apply_edit_rekeyed(context, parent_event_id, edit_event_id, new_content, timestamp) ==
    LET found == get_by_event_id(context.state, parent_event_id)
    IN  IF ~IsSome(found)
        THEN add_pending_edit(context.state, parent_event_id, edit_event_id)
        ELSE LET message == Unwrap(found)
                 new_message_content ==
                     MessageContent(map_message_type(new_content.msgtype),
                                    new_content.msgtype.body,
                                    extract_formatted(new_content.msgtype))
                 edit_metadata ==
                     EditMetadata(edit_event_id, timestamp, context.ordering_key)
                 edited ==
                     IF IsSome(message.edit_state)
                     THEN [message EXCEPT !.edit_state =
                              Some([Unwrap(@) EXCEPT
                                       !.edit_chain = Append(@, edit_metadata),
                                       !.current_content = new_message_content]),
                                          !.ordering_key = context.ordering_key]
                     ELSE [message EXCEPT !.edit_state =
                              Some(CanonicalEditState(new_message_content,
                                                      message.content,
                                                      << edit_metadata >>)),
                                          !.content = new_message_content,
                                          !.ordering_key = context.ordering_key]
             IN  upsert(context.state, edited).st

\* EditAdapter::apply_edit: the store after the call
apply_edit(context, parent_event_id, edit_event_id, new_content, timestamp) ==
    LET found == get_by_event_id(context.state, parent_event_id)
    IN  IF ~IsSome(found)
        THEN add_pending_edit(context.state, parent_event_id, edit_event_id)
        ELSE LET message == Unwrap(found)
                 new_message_content ==
                     MessageContent(map_message_type(new_content.msgtype),
                                    new_content.msgtype.body,
                                    extract_formatted(new_content.msgtype))
                 edit_metadata ==
                     EditMetadata(edit_event_id, timestamp, context.ordering_key)
                 edited ==
                     IF IsSome(message.edit_state)
                     THEN [message EXCEPT !.edit_state =
                              Some([Unwrap(@) EXCEPT
                                       !.edit_chain = Append(@, edit_metadata),
                                       !.current_content = new_message_content])]
                     ELSE [message EXCEPT !.edit_state =
                              Some(CanonicalEditState(new_message_content,
                                                      message.content,
                                                      << edit_metadata >>)),
                                          !.content = new_message_content]
             IN  upsert(context.state, edited).st

\* EditAdapter::process as it would be if an edit that was only buffered were
\* reported as not handled
EditAdapter_process_declines_buffered(event, context) ==
    IF event.kind = "RoomMessage.Original"
    THEN IF IsSome(event.content.relates_to)
            /\ Unwrap(event.content.relates_to).rel_type = "m.replace"
         THEN LET replacement == Unwrap(event.content.relates_to)
              IN  [st |-> apply_edit(context, replacement.event_id, event.event_id,
                                     replacement.new_content,
                                     Some(event.origin_server_ts)),
                   ret |-> IsSome(get_by_event_id(context.state, replacement.event_id))]
         ELSE [st |-> context.state, ret |-> FALSE]
    ELSE [st |-> context.state, ret |-> FALSE]

\* EditAdapter::process: [st |-> the store after the call, ret |-> handled]
EditAdapter_process(event, context) ==
    IF event.kind = "RoomMessage.Original"
    THEN IF IsSome(event.content.relates_to)
            /\ Unwrap(event.content.relates_to).rel_type = "m.replace"
         THEN LET replacement == Unwrap(event.content.relates_to)
              IN  [st |-> apply_edit(context, replacement.event_id, event.event_id,
                                     replacement.new_content,
                                     Some(event.origin_server_ts)),
                   ret |-> TRUE]
         ELSE [st |-> context.state, ret |-> FALSE]
    ELSE [st |-> context.state, ret |-> FALSE]

----------------------------------------------------------------------------
(* The adapter pipeline: each raw event gets a freshly allocated ordering  *)
(* key, the Edit Adapter is tried first, the Message Adapter second, and   *)
(* the first one that reports handled ends the trial.                      *)

Pipeline(s, event) ==
    LET key == next_ordering_key(s)
        context == AdapterContext(key.st, key.ret)
        by_edit == EditAdapter_process(event, context)
        \* the adapters share `&mut` access to the store: the second one works
        \* on the store the first one left
        by_message == MessageAdapter_process(event, AdapterContext(by_edit.st, key.ret))
    IN  IF by_edit.ret
        THEN [st |-> by_edit.st, ret |-> TRUE, adapter |-> "EditAdapter", key |-> key.ret]
        ELSE IF by_message.ret
             THEN [st |-> by_message.st, ret |-> TRUE, adapter |-> "MessageAdapter",
                   key |-> key.ret]
             ELSE [st |-> by_message.st, ret |-> FALSE, adapter |-> "none",
                   key |-> key.ret]

\* one raw event goes through the pipeline
ProcessEvent(event) ==
    LET r == Pipeline(Store, event)
    IN  Becomes(r.st, [op |-> "process", event |-> event, ordering_key |-> r.key,
                       adapter |-> r.adapter, ret |-> r.ret])

ProcessPlain ==
    /\ next_sequence < MaxSequence
    /\ \E event \in PlainEvents : ProcessEvent(event)

ProcessEdit ==
    /\ next_sequence < MaxSequence
    /\ \E event \in EditEvents : ProcessEvent(event)

ProcessRedactedMessage ==
    /\ next_sequence < MaxSequence
    /\ \E event \in RedactedMessageEvents : ProcessEvent(event)

ProcessEncrypted ==
    /\ next_sequence < MaxSequence
    /\ \E event \in EncryptedEvents : ProcessEvent(event)

ProcessRedactedEncrypted ==
    /\ next_sequence < MaxSequence
    /\ \E event \in RedactedEncryptedEvents : ProcessEvent(event)

ProcessRedaction ==
    /\ next_sequence < MaxSequence
    /\ \E event \in RedactionEvents : ProcessEvent(event)

ProcessOther ==
    /\ next_sequence < MaxSequence
    /\ \E event \in OtherEvents : ProcessEvent(event)

Next ==
    \/ ProcessPlain
    \/ ProcessEdit
    \/ ProcessRedactedMessage
    \/ ProcessEncrypted
    \/ ProcessRedactedEncrypted
    \/ ProcessRedaction
    \/ ProcessOther
Spec == Init /\ [][Next]_vars

----------------------------------------------------------------------------
(* Vocabulary of the properties *)

\* the store a step leads to
StoreAfter ==
    [items |-> items',
     event_to_sequence |-> event_to_sequence',
     pending_edits |-> pending_edits',
     delta_tx |-> delta_tx',
     next_sequence |-> next_sequence',
     receivers |-> receivers']

\* the identities listed by snapshot(), in snapshot order
SnapshotIds(s) == [i \in 1..Len(items_vec(s)) |-> items_vec(s)[i].id]

\* the deltas of one type, in publish order
RECURSIVE OfType(_, _)
OfType(tx, type) ==
    IF tx = << >> THEN << >>
    ELSE IF Head(tx).type = type
         THEN << Head(tx) >> \o OfType(Tail(tx), type)
         ELSE OfType(Tail(tx), type)

\* the raw event is an edit: an original message with a replacement relation
IsEdit(event) ==
    /\ event.kind = "RoomMessage.Original"
    /\ IsSome(event.content.relates_to)
    /\ Unwrap(event.content.relates_to).rel_type = "m.replace"

ParentOf(event) == Unwrap(event.content.relates_to).event_id

IsPlain(event) ==
    /\ event.kind = "RoomMessage.Original"
    /\ ~IsSome(event.content.relates_to)

----------------------------------------------------------------------------
(* C1..C10 *)

\* C1: under the adapter pipeline, the ordering key of the item stored for an
\* identity never changes after the identity's first insertion; when the
\* plaintext event arrives for an identity stored as an Encrypted placeholder,
\* the item becomes Known and keeps the placeholder's ordering key.
C1_OrderingKeyNeverChanges ==
    [][\A id \in EventIds :
          IsSome(get_by_event_id(Store, id)) =>
             /\ IsSome(get_by_event_id(StoreAfter, id))
             /\ Unwrap(get_by_event_id(StoreAfter, id)).ordering_key
                   = Unwrap(get_by_event_id(Store, id)).ordering_key
             /\ (/\ Unwrap(get_by_event_id(Store, id)).availability = Encrypted
                 /\ IsPlain(last'.event)
                 /\ last'.event.event_id = id)
                  => Unwrap(get_by_event_id(StoreAfter, id)).availability = Known]_vars

\* C2: redaction is irreversible: an item whose availability is Redacted stays
\* Redacted, with no edit state and the redacted marker as content, whatever
\* event the adapters process next.
C2_RedactionIrreversible ==
    [][\A id \in EventIds :
          (/\ IsSome(get_by_event_id(Store, id))
           /\ Unwrap(get_by_event_id(Store, id)).availability = Redacted)
          => /\ IsSome(get_by_event_id(StoreAfter, id))
             /\ Unwrap(get_by_event_id(StoreAfter, id)).availability = Redacted
             /\ Unwrap(get_by_event_id(StoreAfter, id)).edit_state = None
             /\ Unwrap(get_by_event_id(StoreAfter, id)).content = redacted]_vars

\* C3: after any upserts the snapshot holds at most one item per identity; an
\* upsert of a known identity returns false and leaves the number of items
\* unchanged.
C3_OneItemPerIdentity ==
    [][/\ \A id \in StoreEventIds :
             Cardinality({k \in DOMAIN items' : items'[k].id = id}) <= 1
       /\ (last'.op = "upsert" /\ last'.message.id \in DOMAIN event_to_sequence)
             => /\ last'.ret = FALSE
                /\ Cardinality(DOMAIN items') = Cardinality(DOMAIN items)]_vars

\* C4: an upsert of a message whose identity is already stored leaves that
\* identity's ordering key as it was, whatever key the message carries.
C4_UpsertKeepsOrderingKey ==
    [][(/\ last'.op = "upsert"
        /\ IsSome(get_by_event_id(Store, last'.message.id)))
          => /\ IsSome(get_by_event_id(StoreAfter, last'.message.id))
             /\ Unwrap(get_by_event_id(StoreAfter, last'.message.id)).ordering_key
                   = Unwrap(get_by_event_id(Store, last'.message.id)).ordering_key]_vars

\* C5: when the first insertions carried increasing ordering keys (and nothing
\* was removed), snapshot() lists the items in strictly increasing key order,
\* and that order is the order of first insertion, whatever updates happened.
C5_SnapshotIsFirstInsertionOrder ==
    LET inserts == OfType(delta_tx, "Insert")
        snapshot == items_vec(Store)
    IN  (/\ OfType(delta_tx, "Remove") = << >>
         /\ \A i \in 1..Len(inserts) : \A j \in 1..Len(inserts) :
               i < j => inserts[i].position < inserts[j].position)
        => /\ \A i \in 1..Len(snapshot) : \A j \in 1..Len(snapshot) :
                 i < j => snapshot[i].ordering_key < snapshot[j].ordering_key
           /\ SnapshotIds(Store) = [i \in 1..Len(inserts) |-> inserts[i].item.id]

\* the canonical content of the replacement an edit event carries
ReplacementContent(event) ==
    LET new_content == Unwrap(event.content.relates_to).new_content
    IN  MessageContent(map_message_type(new_content.msgtype),
                       new_content.msgtype.body,
                       extract_formatted(new_content.msgtype))

\* the edit record of an edit event processed under ordering key `key`
EditRecord(event, key) ==
    EditMetadata(event.event_id, Some(event.origin_server_ts), key)

\* the step processes an edit event whose parent is stored
EditAcceptedFor(parent) ==
    /\ last'.op = "process"
    /\ IsEdit(last'.event)
    /\ ParentOf(last'.event) = parent
    /\ IsSome(get_by_event_id(Store, parent))

\* C6: edits are chained in processing order, whatever their timestamps: an
\* accepted edit is appended to the parent's chain and becomes current_content;
\* the first edit records the parent's content as original_content and later
\* edits leave it; so E1 then E2 on an unedited parent give the chain [E1, E2].
C6_EditChainInProcessingOrder ==
    [][\A parent \in EventIds :
          EditAcceptedFor(parent) =>
             LET before == Unwrap(get_by_event_id(Store, parent))
                 after == Unwrap(get_by_event_id(StoreAfter, parent))
                 record == EditRecord(last'.event, last'.ordering_key)
             IN  /\ IsSome(after.edit_state)
                 /\ Unwrap(after.edit_state).current_content
                       = ReplacementContent(last'.event)
                 /\ IF IsSome(before.edit_state)
                    THEN /\ Unwrap(after.edit_state).edit_chain
                               = Append(Unwrap(before.edit_state).edit_chain, record)
                         /\ Unwrap(after.edit_state).original_content
                               = Unwrap(before.edit_state).original_content
                    ELSE /\ Unwrap(after.edit_state).edit_chain = << record >>
                         /\ Unwrap(after.edit_state).original_content = before.content
                 /\ (/\ last.op = "process"
                     /\ IsEdit(last.event)
                     /\ ParentOf(last.event) = parent
                     /\ IsSome(before.edit_state)
                     /\ Len(Unwrap(before.edit_state).edit_chain) = 1)
                       => Unwrap(after.edit_state).edit_chain
                             = << EditRecord(last.event, last.ordering_key), record >>]_vars

\* C6 happens: a parent holds the chain [E1, E2] of two accepted edits, E1 with
\* the later timestamp, and its current content differs from the original
C6_Witness ==
    /\ last.op = "process"
    /\ IsEdit(last.event)
    /\ IsSome(get_by_event_id(Store, ParentOf(last.event)))
    /\ LET parent == Unwrap(get_by_event_id(Store, ParentOf(last.event)))
       IN  /\ IsSome(parent.edit_state)
           /\ Len(Unwrap(parent.edit_state).edit_chain) = 2
           /\ Unwrap(parent.edit_state).edit_chain[2].edit_id = last.event.event_id
           /\ Unwrap(parent.edit_state).edit_chain[1].edit_id # last.event.event_id
           /\ Unwrap(Unwrap(parent.edit_state).edit_chain[1].timestamp)
                 > Unwrap(Unwrap(parent.edit_state).edit_chain[2].timestamp)
           /\ Unwrap(parent.edit_state).current_content
                 # Unwrap(parent.edit_state).original_content

\* C7: every stored item that has an edit state shows the latest edit:
\* content = edit_state.current_content.
C7_ContentIsCurrentContent ==
    \A k \in DOMAIN items :
        IsSome(items[k].edit_state)
           => items[k].content = Unwrap(items[k].edit_state).current_content

\* C8: an edit whose parent is not stored is reported handled, leaves the
\* ordered collection and the identity index as they were, publishes no delta,
\* and is appended to the end of the parent's pending-edit list.
C8_EditBeforeParentIsBuffered ==
    [][(/\ last'.op = "process"
        /\ IsEdit(last'.event)
        /\ ~IsSome(get_by_event_id(Store, ParentOf(last'.event))))
          => LET parent == ParentOf(last'.event)
                 listed == IF parent \in DOMAIN pending_edits
                           THEN pending_edits[parent] ELSE << >>
             IN  /\ last'.ret = TRUE
                 /\ last'.adapter = "EditAdapter"
                 /\ items' = items
                 /\ event_to_sequence' = event_to_sequence
                 /\ delta_tx' = delta_tx
                 /\ DOMAIN pending_edits' = DOMAIN pending_edits \cup {parent}
                 /\ pending_edits'[parent] = Append(listed, last'.event.event_id)
                 /\ \A other \in DOMAIN pending_edits \ {parent} :
                       pending_edits'[other] = pending_edits[other]]_vars

\* C8 happens: an edit was just buffered behind an earlier one for a parent
\* that is not stored, while the store holds another item
C8_Witness ==
    /\ last.op = "process"
    /\ IsEdit(last.event)
    /\ last.ret = TRUE
    /\ ~IsSome(get_by_event_id(Store, ParentOf(last.event)))
    /\ ParentOf(last.event) \in DOMAIN pending_edits
    /\ Len(pending_edits[ParentOf(last.event)]) = 2
    /\ pending_edits[ParentOf(last.event)][2] = last.event.event_id
    /\ pending_edits[ParentOf(last.event)][1] # last.event.event_id
    /\ DOMAIN items # {}

\* C9: take_pending_edits(P) returns P's buffered edits in the order
\* add_pending_edit appended them (empty when P has no entry), removes P's
\* entry and leaves the other parents' entries; a second take right after
\* returns empty.
C9_TakePendingEditsOnce ==
    [][/\ last'.op = "add_pending_edit" =>
             LET parent == last'.parent_event_id
                 listed == IF parent \in DOMAIN pending_edits
                           THEN pending_edits[parent] ELSE << >>
             IN  /\ pending_edits'[parent] = Append(listed, last'.edit_event_id)
                 /\ \A other \in DOMAIN pending_edits \ {parent} :
                       pending_edits'[other] = pending_edits[other]
       /\ last'.op = "take_pending_edits" =>
             LET parent == last'.parent_event_id
             IN  /\ last'.ret = IF parent \in DOMAIN pending_edits
                                THEN pending_edits[parent] ELSE << >>
                 /\ DOMAIN pending_edits' = DOMAIN pending_edits \ {parent}
                 /\ \A other \in DOMAIN pending_edits' :
                       pending_edits'[other] = pending_edits[other]
                 /\ (last.op = "take_pending_edits" /\ last.parent_event_id = parent)
                       => last'.ret = << >>]_vars

\* C9 happens: a take returned two buffered edits in the order they were added
C9_Witness ==
    /\ last.op = "take_pending_edits"
    /\ last.ret = << "$edit2", "$edit1" >>
    /\ last.parent_event_id \notin DOMAIN pending_edits

\* C10: every upsert publishes exactly one delta carrying the supplied message:
\* an Insert when the identity was unseen (and returns true), an Update when it
\* was known (and returns false); the Update carries the position of the Insert
\* published for that identity.
C10_UpsertDelta ==
    [][last'.op = "upsert" =>
          LET message == last'.message
              known == message.id \in DOMAIN event_to_sequence
              inserted == { i \in 1..Len(delta_tx) :
                              /\ delta_tx[i].type = "Insert"
                              /\ delta_tx[i].item.id = message.id }
          IN  /\ Len(delta_tx') = Len(delta_tx) + 1
              /\ SubSeq(delta_tx', 1, Len(delta_tx)) = delta_tx
              /\ delta_tx'[Len(delta_tx')].item = message
              /\ last'.ret = ~known
              /\ delta_tx'[Len(delta_tx')].type = IF known THEN "Update" ELSE "Insert"
              /\ ~known => delta_tx'[Len(delta_tx')].position = message.ordering_key
              /\ (known /\ inserted # {}) =>
                    delta_tx'[Len(delta_tx')].position
                       = delta_tx[CHOOSE i \in inserted : \A j \in inserted : j <= i].position]_vars

----------------------------------------------------------------------------
(* C11..C20 *)

\* C11: no processed event moves an item from Known to Encrypted: when an
\* identity's item is Known, an undecrypted encrypted event that reuses the
\* identity leaves the item Known with the content it had.
C11_KnownNeverBecomesEncrypted ==
    [][\A id \in EventIds :
          (/\ IsSome(get_by_event_id(Store, id))
           /\ Unwrap(get_by_event_id(Store, id)).availability = Known)
          => /\ IsSome(get_by_event_id(StoreAfter, id))
             /\ Unwrap(get_by_event_id(StoreAfter, id)).availability # Encrypted
             /\ (/\ last'.event.kind = "RoomEncrypted.Original"
                 /\ last'.event.event_id = id)
                  => /\ Unwrap(get_by_event_id(StoreAfter, id)).availability = Known
                     /\ Unwrap(get_by_event_id(StoreAfter, id)).content
                           = Unwrap(get_by_event_id(Store, id)).content]_vars

\* C12: after any upserts and removes, get_by_event_id(id) returns the message
\* most recently upserted for id, with that id, exactly when id was upserted
\* and not removed since; the identity index and the ordered collection
\* correspond one to one.
C12_LookupMatchesHistory ==
    [][/\ \A id \in StoreEventIds :
             LET before == get_by_event_id(Store, id)
                 after == get_by_event_id(StoreAfter, id)
                 upserted == last'.op = "upsert" /\ last'.message.id = id
                 removed == /\ last'.op = "remove"
                            /\ IsSome(last'.ret)
                            /\ Unwrap(last'.ret).id = id
             IN  /\ upserted => after = Some(last'.message)
                 /\ removed => after = None
                 /\ (~upserted /\ ~removed) => after = before
                 /\ IsSome(after) => Unwrap(after).id = id
       /\ \A id \in DOMAIN event_to_sequence' :
             /\ event_to_sequence'[id] \in DOMAIN items'
             /\ items'[event_to_sequence'[id]].id = id
       /\ \A k \in DOMAIN items' :
             /\ items'[k].id \in DOMAIN event_to_sequence'
             /\ event_to_sequence'[items'[k].id] = k]_vars

\* C17: remove(position) on a position that holds an item deletes the item
\* from the ordered collection and its identity from the index (the lookup of
\* that identity then returns none, and an upsert of it right after is an
\* Insert), returns the removed message and publishes exactly one
\* Remove{position}; on a position that holds no item it returns none, changes
\* nothing and publishes nothing.
C17_RemoveClearsBothIndices ==
    [][/\ last'.op = "remove" =>
             IF last'.position \in DOMAIN items
             THEN LET message == items[last'.position]
                  IN  /\ last'.ret = Some(message)
                      /\ items' = MapRemove(items, last'.position)
                      /\ message.id \notin DOMAIN event_to_sequence'
                      /\ \A id \in DOMAIN event_to_sequence \ {message.id} :
                            /\ id \in DOMAIN event_to_sequence'
                            /\ event_to_sequence'[id] = event_to_sequence[id]
                      /\ get_by_event_id(StoreAfter, message.id) = None
                      /\ delta_tx' = Append(delta_tx, Remove(last'.position))
                      /\ pending_edits' = pending_edits
                      /\ next_sequence' = next_sequence
             ELSE /\ last'.ret = None
                  /\ StoreAfter = Store
       /\ (/\ last.op = "remove"
           /\ IsSome(last.ret)
           /\ last'.op = "upsert"
           /\ last'.message.id = Unwrap(last.ret).id)
             => /\ last'.ret = TRUE
                /\ delta_tx'[Len(delta_tx')]
                      = Insert(last'.message.ordering_key, last'.message)]_vars

\* C17 happens: an identity was inserted, removed and upserted again, which
\* published Insert, Remove, Insert
C17_Witness ==
    /\ last.op = "upsert"
    /\ last.ret = TRUE
    /\ Len(delta_tx) = 3
    /\ delta_tx[1].type = "Insert"
    /\ delta_tx[1].item.id = last.message.id
    /\ delta_tx[2] = Remove(delta_tx[1].position)
    /\ delta_tx[3].type = "Insert"
    /\ get_by_event_id(Store, last.message.id) = Some(last.message)

\* the event kinds through which the Message Adapter stores an item for the
\* event's own identity
CreatingKinds ==
    {"RoomMessage.Original", "RoomMessage.Redacted",
     "RoomEncrypted.Original", "RoomEncrypted.Redacted"}

\* the step has the Message Adapter create the item for identity parent
CreatedByMessageAdapter(parent) ==
    /\ last'.op = "process"
    /\ last'.adapter = "MessageAdapter"
    /\ last'.event.kind \in CreatingKinds
    /\ last'.event.event_id = parent
    /\ ~IsSome(get_by_event_id(Store, parent))

\* C18: whenever the Message Adapter creates the item for a parent identity
\* (through a plain, redacted, encrypted or redacted-encrypted event), the
\* pending-edit buffer holds no entry for that parent right after the event
\* has been processed.
C18_BufferEmptiedOnParentCreation ==
    [][\A parent \in EventIds :
          CreatedByMessageAdapter(parent)
             => /\ IsSome(get_by_event_id(StoreAfter, parent))
                /\ parent \notin DOMAIN pending_edits']_vars

\* C19: when an edit is buffered for an absent parent and the parent's plain
\* event is then processed, the edit is not replayed: the parent's item has no
\* edit state and the content of the parent's own event, the parent's buffer
\* entry is consumed (the other entries stay), and the step publishes only the
\* Insert of the parent.
C19_BufferedEditNotReplayed ==
    [][\A parent \in EventIds :
          (/\ CreatedByMessageAdapter(parent)
           /\ IsPlain(last'.event)
           /\ parent \in DOMAIN pending_edits)
          => LET after == get_by_event_id(StoreAfter, parent)
                 own == MessageContent(map_message_type(last'.event.content.msgtype),
                                       last'.event.content.msgtype.body,
                                       extract_formatted(last'.event.content.msgtype))
             IN  /\ IsSome(after)
                 /\ Unwrap(after).edit_state = None
                 /\ Unwrap(after).content = own
                 /\ Unwrap(after).availability = Known
                 /\ DOMAIN pending_edits' = DOMAIN pending_edits \ {parent}
                 /\ \A other \in DOMAIN pending_edits' :
                       pending_edits'[other] = pending_edits[other]
                 /\ delta_tx' = Append(delta_tx,
                                       Insert(last'.ordering_key, Unwrap(after)))]_vars

\* C19 happens: two edits were buffered for a parent, the parent's plain event
\* was processed, and the parent is stored unedited with the buffer empty
C19_Witness ==
    /\ last.op = "process"
    /\ IsPlain(last.event)
    /\ Len(delta_tx) = 1
    /\ delta_tx[1].type = "Insert"
    /\ delta_tx[1].item.id = last.event.event_id
    /\ delta_tx[1].position = 2
    /\ IsSome(get_by_event_id(Store, last.event.event_id))
    /\ Unwrap(get_by_event_id(Store, last.event.event_id)).edit_state = None
    /\ pending_edits = EmptyMap

\* the identity whose item the step updates through decryption (a plaintext
\* event for an item stored as Encrypted), an edit of a stored parent or a
\* redaction of a stored target; none for any other step
UpdatedIdentity ==
    IF last'.op # "process" THEN None
    ELSE IF IsEdit(last'.event)
    THEN IF IsSome(get_by_event_id(Store, ParentOf(last'.event)))
         THEN Some(ParentOf(last'.event)) ELSE None
    ELSE IF IsPlain(last'.event)
    THEN IF /\ IsSome(get_by_event_id(Store, last'.event.event_id))
            /\ Unwrap(get_by_event_id(Store, last'.event.event_id)).availability
                  = Encrypted
         THEN Some(last'.event.event_id) ELSE None
    ELSE IF last'.event.kind = "RoomRedaction.Original"
    THEN IF /\ IsSome(last'.event.content.redacts)
            /\ IsSome(get_by_event_id(Store, Unwrap(last'.event.content.redacts)))
         THEN Some(Unwrap(last'.event.content.redacts)) ELSE None
    ELSE None

\* C20: a step that updates an identity through decryption, an edit or a
\* redaction publishes exactly one delta, an Update for that identity at the
\* position of the Insert published for it; when the step is the plaintext
\* event of an item stored as Encrypted, the Update's item is Known.
C20_UpdateAtInsertPosition ==
    [][IsSome(UpdatedIdentity) =>
          LET id == Unwrap(UpdatedIdentity)
              published == delta_tx'[Len(delta_tx')]
          IN  /\ Len(delta_tx') = Len(delta_tx) + 1
              /\ SubSeq(delta_tx', 1, Len(delta_tx)) = delta_tx
              /\ published.type = "Update"
              /\ published.item.id = id
              /\ \E j \in 1..Len(delta_tx) :
                    /\ delta_tx[j].type = "Insert"
                    /\ delta_tx[j].item.id = id
              /\ \A j \in 1..Len(delta_tx) :
                    (delta_tx[j].type = "Insert" /\ delta_tx[j].item.id = id)
                       => published.position = delta_tx[j].position
              /\ IsPlain(last'.event) => published.item.availability = Known]_vars

\* C13: every allocation returns the counter's value and moves the counter
\* one up, so that it returns 0 first and then a key strictly greater than all
\* keys returned before; no other operation of the store (upsert, remove, the
\* pending-edit operations, emit_reset, subscribe) changes the counter.
C13_AllocationStrictlyIncreasing ==
    [][/\ last'.op = "next_ordering_key"
             => /\ as_u64(last'.ret) = next_sequence
                /\ next_sequence' = next_sequence + 1
                /\ last.op = "new" => as_u64(last'.ret) = 0
                /\ last.op = "next_ordering_key" => as_u64(last'.ret) > as_u64(last.ret)
       /\ last'.op # "next_ordering_key" => next_sequence' = next_sequence]_vars

\* C13 happens: the third allocation returned 2 after the store was upserted
\* into, subscribed to and given a pending edit
C13_Witness ==
    /\ last.op = "next_ordering_key"
    /\ as_u64(last.ret) = 2
    /\ next_sequence = 3
    /\ DOMAIN items # {}
    /\ DOMAIN receivers # {}
    /\ DOMAIN pending_edits # {}
    /\ delta_tx # << >>

\* the deltas a handle has not read yet
Unread(s, handle) == Len(s.delta_tx) - s.receivers[handle].next

\* C14: a handle that never fell behind by more than the channel capacity has
\* received, in publish order and without duplication, exactly the deltas
\* published after its subscribe call up to where it has read: a new handle
\* starts after the deltas published so far; each read returns the next
\* published delta, or Empty when the handle has read them all; handles
\* created at different times each see the sequence from their own start.
C14_SubscriberSeesDeltasSinceSubscribe ==
    [][/\ \A handle \in DOMAIN receivers' :
             LET rx == receivers'[handle]
             IN  rx.missed = 0
                    => /\ rx.since + Len(rx.received) <= Len(delta_tx')
                       /\ rx.received
                             = SubSeq(delta_tx', rx.since + 1, rx.since + Len(rx.received))
       /\ last'.op = "subscribe"
             => /\ receivers'[last'.handle].since = Len(delta_tx)
                /\ receivers'[last'.handle].received = << >>
       /\ \A handle \in DOMAIN receivers \cap DOMAIN receivers' :
             receivers'[handle].since = receivers[handle].since
       /\ (last'.op = "try_recv" /\ Unread(Store, last'.handle) <= Capacity)
             => LET rx == receivers[last'.handle]
                    read == rx.since + Len(rx.received)
                IN  IF read = Len(delta_tx)
                    THEN /\ last'.ret = Empty
                         /\ receivers'[last'.handle].received = rx.received
                    ELSE /\ last'.ret = Ok(delta_tx[read + 1])
                         /\ receivers'[last'.handle].received
                               = Append(rx.received, delta_tx[read + 1])]_vars

\* C14 happens: two handles subscribed at different points have both read all
\* that was published since, and what they have read differs
C14_Witness ==
    /\ DOMAIN receivers = Handles
    /\ receivers["rx1"].since = 0
    /\ receivers["rx2"].since = 2
    /\ Len(delta_tx) = 3
    /\ receivers["rx1"].received = delta_tx
    /\ receivers["rx2"].received = << delta_tx[3] >>
    /\ last.op = "try_recv"
    /\ last.ret = Empty

\* upsert, remove and emit_reset complete with the return value and the store
\* they are specified to produce, whatever receivers the channel has and
\* however far behind they are, and leave the receivers alone
WriterCallCompletes ==
    /\ last'.op = "upsert"
          => LET message == last'.message
                 key == as_u64(message.ordering_key)
                 is_new == message.id \notin DOMAIN event_to_sequence
             IN  /\ last'.ret = is_new
                 /\ items' = MapInsert(items, key, message)
                 /\ event_to_sequence' = MapInsert(event_to_sequence, message.id, key)
                 /\ delta_tx' = Append(delta_tx,
                                       IF is_new
                                       THEN Insert(message.ordering_key, message)
                                       ELSE Update(message.ordering_key, message))
    /\ last'.op = "remove"
          => IF as_u64(last'.position) \in DOMAIN items
             THEN /\ last'.ret = Some(items[as_u64(last'.position)])
                  /\ items' = MapRemove(items, as_u64(last'.position))
                  /\ event_to_sequence'
                        = MapRemove(event_to_sequence, items[as_u64(last'.position)].id)
                  /\ delta_tx' = Append(delta_tx, Remove(last'.position))
             ELSE /\ last'.ret = None
                  /\ items' = items
                  /\ event_to_sequence' = event_to_sequence
                  /\ delta_tx' = delta_tx
    /\ last'.op = "emit_reset"
          => /\ items' = items
             /\ event_to_sequence' = event_to_sequence
             /\ delta_tx' = Append(delta_tx, Reset(MapValues(items)))
    /\ last'.op \in {"upsert", "remove", "emit_reset"}
          => /\ receivers' = receivers
             /\ pending_edits' = pending_edits
             /\ next_sequence' = next_sequence

\* the values of a occur in b in the same order
RECURSIVE IsSubsequence(_, _)
IsSubsequence(a, b) ==
    IF a = << >> THEN TRUE
    ELSE IF b = << >> THEN FALSE
    ELSE IF Head(a) = Head(b) THEN IsSubsequence(Tail(a), Tail(b))
    ELSE IsSubsequence(a, Tail(b))

\* C15: publishing never blocks or fails: with a subscriber that leaves more
\* than Capacity deltas unread, upsert, remove and emit_reset complete as they
\* do without it; a read of a subscriber that is more than Capacity behind
\* reports the oldest unread deltas lost, as many as exceed Capacity, and
\* moves it to the oldest retained delta; its reads then return the retained
\* deltas in publish order.
C15_PublishNeverBlocks ==
    [][/\ WriterCallCompletes
       /\ last'.op = "try_recv"
             => LET rx == receivers[last'.handle]
                    after == receivers'[last'.handle]
                    unread == Unread(Store, last'.handle)
                IN  /\ delta_tx' = delta_tx
                    /\ unread > Capacity
                          => /\ last'.ret = Lagged(unread - Capacity)
                             /\ Unread(StoreAfter, last'.handle) = Capacity
                             /\ after.received = rx.received
                             /\ after.missed = rx.missed + (unread - Capacity)
                    /\ (0 < unread /\ unread <= Capacity)
                          => /\ last'.ret = Ok(delta_tx[rx.next + 1])
                             /\ after.next = rx.next + 1
                             /\ after.received = Append(rx.received, delta_tx[rx.next + 1])
                             /\ after.missed = rx.missed
                    /\ unread = 0
                          => /\ last'.ret = Empty
                             /\ after = rx
       /\ \A handle \in DOMAIN receivers' :
             LET rx == receivers'[handle]
             IN  /\ rx.since + rx.missed + Len(rx.received) = rx.next
                 /\ rx.next <= Len(delta_tx')
                 /\ IsSubsequence(rx.received, SubSeq(delta_tx', rx.since + 1, rx.next))]_vars

\* C15 happens: the writer published MaxLag deltas more than the channel
\* retains while the subscriber read nothing; the subscriber's first read
\* reported them lost, and it has since read every retained delta
C15_Witness ==
    /\ Len(delta_tx) = Capacity + MaxLag
    /\ "rx1" \in DOMAIN receivers
    /\ receivers["rx1"].since = 0
    /\ receivers["rx1"].missed = MaxLag
    /\ receivers["rx1"].received = SubSeq(delta_tx, MaxLag + 1, Len(delta_tx))
    /\ last.op = "try_recv"
    /\ last.ret.ok

\* C16: with no subscriber at all, and whenever a handle is dropped, upsert,
\* remove and emit_reset produce the store and return values they are
\* specified to produce; dropping a handle changes nothing of the store and
\* nothing of the other handles, and a handle's read depends on its own
\* position and the published deltas alone.
C16_DropHasNoSideEffect ==
    [][/\ WriterCallCompletes
       /\ last'.op = "drop"
             => /\ [StoreAfter EXCEPT !.receivers = EmptyMap]
                      = [Store EXCEPT !.receivers = EmptyMap]
                /\ DOMAIN receivers' = DOMAIN receivers \ {last'.handle}
                /\ \A other \in DOMAIN receivers' : receivers'[other] = receivers[other]
       /\ last'.op = "try_recv"
             => /\ \A other \in DOMAIN receivers \ {last'.handle} :
                      /\ other \in DOMAIN receivers'
                      /\ receivers'[other] = receivers[other]
                /\ last'.ret
                      = try_recv([Store EXCEPT !.receivers =
                                     [h \in {last'.handle} |-> receivers[h]]],
                                 last'.handle).ret]_vars

\* C16 happens: a handle was dropped while the other one had read one delta
\* and had two more to read
C16_Witness ==
    /\ last.op = "drop"
    /\ DOMAIN receivers = Handles \ {last.handle}
    /\ \A other \in DOMAIN receivers :
          /\ Len(receivers[other].received) = 1
          /\ Unread(Store, other) = 2

----------------------------------------------------------------------------
(* C21..C30 *)

\* the sequence a starts the sequence b
IsPrefix(a, b) == Len(a) <= Len(b) /\ SubSeq(b, 1, Len(a)) = a

\* C28: the edit history of an item that is not redacted only grows: under
\* every processed event that leaves the item not Redacted, the records of
\* its edit chain stay in the chain, in place, and original_content stays as
\* it was.
C28_EditHistoryOnlyGrows ==
    [][\A id \in EventIds :
          LET before == get_by_event_id(Store, id)
              after == get_by_event_id(StoreAfter, id)
          IN  (/\ IsSome(before)
               /\ IsSome(Unwrap(before).edit_state)
               /\ IsSome(after)
               /\ Unwrap(after).availability # Redacted)
              => /\ IsSome(Unwrap(after).edit_state)
                 /\ IsPrefix(Unwrap(Unwrap(before).edit_state).edit_chain,
                             Unwrap(Unwrap(after).edit_state).edit_chain)
                 /\ Unwrap(Unwrap(after).edit_state).original_content
                       = Unwrap(Unwrap(before).edit_state).original_content]_vars

\* C29: every stored item whose availability is Encrypted has the empty
\* placeholder as content and no edit state.
C29_EncryptedIsPlaceholder ==
    \A k \in DOMAIN items :
        items[k].availability = Encrypted
           => /\ items[k].content = MessageContent("Text", "", None)
              /\ items[k].edit_state = None

\* the number of places of the sequence seq that hold x
Occurrences(seq, x) == Cardinality({i \in 1..Len(seq) : seq[i] = x})

\* C30: an edit identity appears at most once in an item's edit chain and at
\* most once in a parent's pending-edit list, however often the edit event is
\* delivered.
C30_EditIdentityAtMostOnce ==
    /\ \A k \in DOMAIN items :
          IsSome(items[k].edit_state)
             => LET chain == Unwrap(items[k].edit_state).edit_chain
                    ids == [i \in 1..Len(chain) |-> chain[i].edit_id]
                IN  \A edit \in EventIds : Occurrences(ids, edit) <= 1
    /\ \A parent \in DOMAIN pending_edits :
          \A edit \in EventIds : Occurrences(pending_edits[parent], edit) <= 1

\* the identities that have an item in the ordered collection
StoredIds(s) == { s.items[k].id : k \in DOMAIN s.items }

\* C21: an accepted edit changes only the parent's content and edit state: the
\* parent keeps its ordering key, identity, sender, availability and
\* timestamp; the collection keeps its size and every other item; no identity
\* is added to it; exactly one delta is published, an Update of the parent at
\* the parent's position; and the appended edit record carries the ordering
\* key of the edit event, which is not the parent's.
C21_EditChangesOnlyContentAndEditState ==
    [][\A parent \in EventIds :
          EditAcceptedFor(parent) =>
             LET before == Unwrap(get_by_event_id(Store, parent))
                 after == Unwrap(get_by_event_id(StoreAfter, parent))
                 chain == Unwrap(after.edit_state).edit_chain
             IN  /\ after = [before EXCEPT !.content = after.content,
                                           !.edit_state = after.edit_state]
                 /\ DOMAIN items' = DOMAIN items
                 /\ \A k \in DOMAIN items \ {as_u64(before.ordering_key)} :
                       items'[k] = items[k]
                 /\ items'[as_u64(before.ordering_key)] = after
                 /\ event_to_sequence' = event_to_sequence
                 /\ StoredIds(StoreAfter) = StoredIds(Store)
                 /\ delta_tx' = Append(delta_tx, Update(before.ordering_key, after))
                 /\ chain[Len(chain)].edit_id = last'.event.event_id
                 /\ chain[Len(chain)].position = last'.ordering_key
                 /\ last'.ordering_key # before.ordering_key]_vars

\* C21 happens: an edit with ordering key 2 was applied to the parent at key 0
\* while another item sits at key 1; the edit's identity has no item
C21_Witness ==
    /\ last.op = "process"
    /\ IsEdit(last.event)
    /\ last.ordering_key = 2
    /\ DOMAIN items = {0, 1}
    /\ items[0].id = ParentOf(last.event)
    /\ items[1].id # ParentOf(last.event)
    /\ last.event.event_id \notin StoredIds(Store)
    /\ IsSome(items[0].edit_state)
    /\ Unwrap(items[0].edit_state).edit_chain
          = << EditRecord(last.event, 2) >>
    /\ delta_tx[3] = Update(0, items[0])

\* the step processes a redaction event that names target
RedactionOf(target) ==
    /\ last'.op = "process"
    /\ last'.event.kind = "RoomRedaction.Original"
    /\ last'.event.content.redacts = Some(target)

\* C22: a redaction whose target is stored leaves the target with the fixed
\* redacted marker as content, availability Redacted and no edit state; the
\* target keeps its ordering key, identity and sender; the collection keeps
\* its size and every other item, and gains no identity; exactly one delta is
\* published, an Update of the target at the target's position.
C22_RedactionOfStoredTarget ==
    [][\A target \in EventIds :
          (RedactionOf(target) /\ IsSome(get_by_event_id(Store, target)))
          => LET before == Unwrap(get_by_event_id(Store, target))
                 after == Unwrap(get_by_event_id(StoreAfter, target))
             IN  /\ last'.ret = TRUE
                 /\ after = [before EXCEPT
                                !.content = MessageContent("Text", "[redacted]", None),
                                !.availability = Redacted,
                                !.edit_state = None]
                 /\ DOMAIN items' = DOMAIN items
                 /\ \A k \in DOMAIN items \ {as_u64(before.ordering_key)} :
                       items'[k] = items[k]
                 /\ items'[as_u64(before.ordering_key)] = after
                 /\ event_to_sequence' = event_to_sequence
                 /\ StoredIds(StoreAfter) = StoredIds(Store)
                 /\ pending_edits' = pending_edits
                 /\ delta_tx' = Append(delta_tx, Update(before.ordering_key, after))]_vars

\* C22 happens: a parent was stored at key 0, edited, and then redacted by an
\* event that has no item of its own: three deltas, the last one the Update
\* that carries the redacted parent without its edit state
C22_Witness ==
    /\ last.op = "process"
    /\ last.event.kind = "RoomRedaction.Original"
    /\ IsSome(last.event.content.redacts)
    /\ Len(delta_tx) = 3
    /\ delta_tx[2].type = "Update"
    /\ delta_tx[2].item.id = Unwrap(last.event.content.redacts)
    /\ IsSome(delta_tx[2].item.edit_state)
    /\ DOMAIN items = {0}
    /\ delta_tx[3] = Update(0, items[0])
    /\ items[0].id = Unwrap(last.event.content.redacts)
    /\ items[0].availability = Redacted
    /\ items[0].edit_state = None
    /\ last.event.event_id \notin StoredIds(Store)

\* C23: a redaction whose target is not stored is reported handled and leaves
\* the collection, the identity index and the pending-edit buffer as they
\* were, with no delta published; it is not remembered: when the target's
\* plain event is processed right after, the target is stored Known with the
\* content of its own event and no edit state.
C23_RedactionOfAbsentTargetDropped ==
    [][\A target \in EventIds :
          /\ (RedactionOf(target) /\ ~IsSome(get_by_event_id(Store, target)))
                => /\ last'.ret = TRUE
                   /\ items' = items
                   /\ event_to_sequence' = event_to_sequence
                   /\ pending_edits' = pending_edits
                   /\ delta_tx' = delta_tx
          /\ (/\ last.op = "process"
              /\ last.event.kind = "RoomRedaction.Original"
              /\ last.event.content.redacts = Some(target)
              /\ ~IsSome(get_by_event_id(Store, target))
              /\ last'.op = "process"
              /\ IsPlain(last'.event)
              /\ last'.event.event_id = target)
                => LET after == get_by_event_id(StoreAfter, target)
                   IN  /\ IsSome(after)
                       /\ Unwrap(after).availability = Known
                       /\ Unwrap(after).edit_state = None
                       /\ Unwrap(after).content
                             = MessageContent(
                                   map_message_type(last'.event.content.msgtype),
                                   last'.event.content.msgtype.body,
                                   extract_formatted(last'.event.content.msgtype))]_vars

\* C23 happens: the redaction of an absent target was dropped while the store
\* held another item and a pending edit
C23_Witness ==
    /\ last.op = "process"
    /\ last.event.kind = "RoomRedaction.Original"
    /\ IsSome(last.event.content.redacts)
    /\ ~IsSome(get_by_event_id(Store, Unwrap(last.event.content.redacts)))
    /\ last.ret = TRUE
    /\ last.ordering_key = 2
    /\ Len(delta_tx) = 1
    /\ Cardinality(DOMAIN items) = 1
    /\ DOMAIN pending_edits # {}
    /\ Unwrap(last.event.content.redacts) \notin DOMAIN pending_edits

\* what the two adapters do with the event of the step, in pipeline order
AdapterTrial ==
    LET key == next_ordering_key(Store)
        by_edit == EditAdapter_process(last'.event, AdapterContext(key.st, key.ret))
        by_message == MessageAdapter_process(last'.event,
                                             AdapterContext(by_edit.st, key.ret))
    IN  [before |-> key.st, by_edit |-> by_edit, by_message |-> by_message]

\* C24: with the Edit Adapter tried first and the pipeline stopping at the
\* first adapter that reports handled, an event changes the store through at
\* most one adapter: an adapter that declines leaves the store alone, and the
\* store after the step is the one the claiming adapter left.  An original
\* message with a replacement relation is always claimed by the Edit Adapter,
\* whether its parent is stored or the edit is buffered, and no item with the
\* edit event's identity is created.
C24_AtMostOneAdapter ==
    [][last'.op = "process" =>
          LET trial == AdapterTrial
          IN  /\ ~trial.by_edit.ret => trial.by_edit.st = trial.before
              /\ ~trial.by_message.ret => trial.by_message.st = trial.by_edit.st
              /\ StoreAfter = IF trial.by_edit.ret
                              THEN trial.by_edit.st
                              ELSE trial.by_message.st
              /\ last'.adapter = IF trial.by_edit.ret THEN "EditAdapter"
                                 ELSE IF trial.by_message.ret THEN "MessageAdapter"
                                 ELSE "none"
              /\ IsEdit(last'.event)
                    => /\ last'.ret = TRUE
                       /\ last'.adapter = "EditAdapter"
                       /\ StoredIds(StoreAfter) = StoredIds(Store)
                       /\ DOMAIN event_to_sequence' = DOMAIN event_to_sequence]_vars

\* C24 happens: an edit whose parent is absent was claimed by the Edit Adapter
\* and buffered, and its own identity has no item although the store holds one
C24_Witness ==
    /\ last.op = "process"
    /\ IsEdit(last.event)
    /\ last.adapter = "EditAdapter"
    /\ pending_edits = [p \in {ParentOf(last.event)} |-> << last.event.event_id >>]
    /\ last.event.event_id \notin StoredIds(Store)
    /\ StoredIds(Store) # {}

\* C25: an event of a shape no adapter handles (a state event, a reaction, a
\* redaction event in redacted form) is declined by the Edit Adapter and by
\* the Message Adapter, and leaves the collection, the identity index and the
\* pending-edit buffer as they were, with no delta published.
C25_UnhandledShapeIgnored ==
    [][(/\ last'.op = "process"
        /\ last'.event.kind \notin CreatingKinds \cup {"RoomRedaction.Original"})
          => /\ ~AdapterTrial.by_edit.ret
             /\ ~AdapterTrial.by_message.ret
             /\ last'.ret = FALSE
             /\ last'.adapter = "none"
             /\ items' = items
             /\ event_to_sequence' = event_to_sequence
             /\ pending_edits' = pending_edits
             /\ delta_tx' = delta_tx]_vars

\* C25 happens: a redaction event in redacted form was declined while the
\* store held an item and a pending edit
C25_Witness ==
    /\ last.op = "process"
    /\ last.event.kind = "RoomRedaction.Redacted"
    /\ last.ret = FALSE
    /\ last.adapter = "none"
    /\ DOMAIN items # {}
    /\ DOMAIN pending_edits # {}
    /\ Len(delta_tx) = 1

\* C26: emit_reset publishes exactly one delta, a Reset whose items are the
\* snapshot at the moment of the call, every item of the collection in
\* ascending ordering-key order; the collection, the identity index, the
\* pending-edit buffer and the allocation counter are left as they were.
C26_EmitResetCarriesSnapshot ==
    [][last'.op = "emit_reset" =>
          LET snapshot == items_vec(Store)
          IN  /\ delta_tx' = Append(delta_tx, Reset(snapshot))
              /\ Len(snapshot) = Cardinality(DOMAIN items)
              /\ \A k \in DOMAIN items : \E i \in 1..Len(snapshot) : snapshot[i] = items[k]
              /\ \A i, j \in 1..Len(snapshot) :
                    i < j => as_u64(snapshot[i].ordering_key)
                                < as_u64(snapshot[j].ordering_key)
              /\ items' = items
              /\ event_to_sequence' = event_to_sequence
              /\ pending_edits' = pending_edits
              /\ next_sequence' = next_sequence]_vars

\* C26 happens: emit_reset was called on a store of two items that were
\* inserted in descending key order, and the Reset carries both, lower key first
C26_Witness ==
    /\ last.op = "emit_reset"
    /\ Len(delta_tx) = 3
    /\ delta_tx[1].type = "Insert"
    /\ delta_tx[2].type = "Insert"
    /\ as_u64(delta_tx[1].position) > as_u64(delta_tx[2].position)
    /\ delta_tx[3].type = "Reset"
    /\ Len(delta_tx[3].items) = 2
    /\ delta_tx[3].items = << delta_tx[2].item, delta_tx[1].item >>

\* what a subscriber holds after it applied one delta to a map keyed by
\* position; a Reset carries its items without positions, and each item is
\* filed at its own ordering key
ApplyDelta(map, delta) ==
    CASE delta.type \in {"Insert", "Update"} ->
            MapInsert(map, as_u64(delta.position), delta.item)
      [] delta.type = "Remove" ->
            MapRemove(map, as_u64(delta.position))
      [] delta.type = "Reset" ->
            [k \in { as_u64(delta.items[i].ordering_key) : i \in 1..Len(delta.items) }
                |-> LET i == CHOOSE i \in 1..Len(delta.items) :
                                 as_u64(delta.items[i].ordering_key) = k
                    IN  delta.items[i]]

\* the map after the deltas were applied in order, from the empty map
RECURSIVE Replay(_)
Replay(deltas) ==
    IF deltas = << >> THEN EmptyMap
    ELSE ApplyDelta(Replay(SubSeq(deltas, 1, Len(deltas) - 1)), deltas[Len(deltas)])

\* C27: the deltas sent since the store was created, applied in order to a map
\* keyed by position, give exactly the sequence the snapshot returns, after
\* every store operation.  A subscriber that subscribed to the new store and
\* missed nothing has received exactly these deltas.
C27_ReplayMatchesSnapshot ==
    MapValues(Replay(delta_tx)) = items_vec(Store)

\* C27 happens: an insertion, an update of the same identity and a removal
\* were replayed, and an item is left
C27_Witness ==
    /\ Len(delta_tx) = 3
    /\ { delta_tx[i].type : i \in 1..3 } = {"Insert", "Update", "Remove"}
    /\ last.op = "remove"
    /\ IsSome(last.ret)
    /\ Len(items_vec(Store)) = 1

====
